---- MODULE Spec2Model ----
(***************************************************************************)
(* Shared-clipboard editor: the ClipboardEditor component (editor state,   *)
(* debounce timer, save loop) and the ApiClient REST wrapper it calls.     *)
(* Timers, in-flight PUT requests and their responses are explicit so that *)
(* every interleaving the browser event loop allows is explored.           *)
(***************************************************************************)
EXTENDS Integers, FiniteSets, Sequences, Bags, TLC

VARIABLES
    content,            \* useState('') : text shown in the textarea
    clipboard,          \* useState<Clipboard | null>(null)
    isLoading,          \* useState(true)
    isSaving,           \* useState(false)
    hasChanges,         \* useState(false)
    error,              \* useState<string | null>(null); "" stands for null
    saveTimeoutRef,     \* useRef<Timeout | null>(null); 0 stands for null
    lastSavedContent,   \* useRef<string>('')
    toasts,             \* number of 'Failed to save' toasts shown
    timers,             \* pending setTimeout callbacks: [id, content]
    nextTimerId,        \* number of setTimeout calls made so far
    requests,           \* bag of PUT requests not yet handled by the store
    responses,          \* bag of PUT fetch outcomes not yet delivered
    store,              \* content held by the remote store for the clipboard
    called,             \* the saveContent call made by the last step, if any
    failedSince,        \* history: a save failed and the user has not typed or
                        \* clicked Save since
    apiCall,            \* ApiClient method last invoked directly + fetch outcome
    apiResult           \* what that invocation returned or threw

vars == <<content, clipboard, isLoading, isSaving, hasChanges, error,
          saveTimeoutRef, lastSavedContent, toasts, timers, nextTimerId,
          requests, responses, store, called, failedSince,
          apiCall, apiResult>>

editorVars == <<content, clipboard, isLoading, isSaving, hasChanges, error,
                saveTimeoutRef, lastSavedContent, toasts, timers, nextTimerId,
                requests, responses, store, called, failedSince>>

apiVars == <<apiCall, apiResult>>

(***************************************************************************)
(* Bounds                                                                  *)
(***************************************************************************)
MaxContents == 3    \* number of distinct texts the user / store may hold
MaxEdits    == 3    \* number of content changes the user makes
MaxToasts   == 1    \* number of update requests that may fail

Alphabet == <<"", "a", "b", "c", "d", "e">>
Contents == {Alphabet[i] : i \in 1..MaxContents}

\* HTTP statuses a fetch may resolve with
Statuses == {200, 201, 204, 299, 301, 400, 404, 500, 503}
\* error statuses the remote store answers the editor with
ServerStatuses == {404, 500}
\* statuses whose Response carries no body (Fetch: null body status)
NullBodyStatuses == {204, 205}

ClipboardId == "id1"

(***************************************************************************)
(* Data                                                                    *)
(***************************************************************************)
\* interface Clipboard {id, content, ...}; the timestamps are opaque strings
\* that no operation reads and are left out
Clipboard(c) == [id |-> ClipboardId, content |-> c]
NullClipboard == [id |-> "null", content |-> ""]
\* interface ApiError {detail}
ApiError == [id |-> "detail", content |-> ""]

\* a response body as sent: JSON text encoding a value, other text, none, or
\* a stream that errors while it is read (connection lost after the headers)
JsonBody(v) == [kind |-> "json", value |-> v]
HtmlBody    == [kind |-> "text", value |-> NullClipboard]
EmptyBody   == [kind |-> "empty", value |-> NullClipboard]
BrokenBody  == [kind |-> "broken", value |-> NullClipboard]

Resolved(s, b) == [kind |-> "resolved", status |-> s, body |-> b]
Rejected == [kind |-> "rejected", status |-> 0, body |-> EmptyBody]

\* Response.ok of the Fetch API
Ok(response) == response.status \in 200..299

Return(v) == [kind |-> "return", message |-> "", value |-> v]
Throw(m)  == [kind |-> "throw", message |-> m, value |-> ApiError]
\* fetch() itself rejected: the TypeError propagates out of the method
NetworkError == Throw("TypeError")
\* reading the body failed: response.json() rejects with a TypeError
ReadError == Throw("TypeError: terminated")
\* response.json(): the parsed value of a JSON body; a body that cannot be
\* read rejects with a TypeError, one that is empty or not JSON with a
\* SyntaxError
Json(response) ==
    IF response.body.kind = "json" THEN Return(response.body.value)
    ELSE IF response.body.kind = "broken" THEN ReadError
    ELSE Throw("SyntaxError")

(***************************************************************************)
(* ApiClient: each method as a function of the outcome of its fetch        *)
(***************************************************************************)
createClipboard(r) ==
    IF r.kind = "rejected" THEN NetworkError
    ELSE IF ~Ok(r) THEN Throw("Failed to create clipboard")
    ELSE Json(r)

getClipboard_No404(r) ==
    IF r.kind = "rejected" THEN NetworkError
    ELSE IF ~Ok(r) THEN Throw("Failed to fetch clipboard")
    ELSE Json(r)

getClipboard(r) ==
    IF r.kind = "rejected" THEN NetworkError
    ELSE IF ~Ok(r)
         THEN IF r.status = 404 THEN Throw("Clipboard not found")
              ELSE Throw("Failed to fetch clipboard")
    ELSE Json(r)

updateClipboard(r) ==
    IF r.kind = "rejected" THEN NetworkError
    ELSE IF ~Ok(r)
         THEN IF r.status = 404 THEN Throw("Clipboard not found")
              ELSE Throw("Failed to update clipboard")
    ELSE Json(r)

checkHealth(r) ==
    IF r.kind = "rejected" THEN Return(FALSE)
    ELSE Return(Ok(r))

(***************************************************************************)
(* ClipboardEditor                                                         *)
(***************************************************************************)
NoCall == [by |-> "none", arg |-> "", sent |-> FALSE]
NoApi  == [method |-> "none", fetch |-> Rejected]

\* the editor (textarea, Save button) is rendered: lines 140-174
Rendered == ~isLoading /\ error = ""

Init ==
    /\ content = ""
    /\ clipboard = NullClipboard
    /\ isLoading = TRUE
    /\ isSaving = FALSE
    /\ hasChanges = FALSE
    /\ error = ""
    /\ saveTimeoutRef = 0
    /\ lastSavedContent = ""
    /\ toasts = 0
    /\ timers = {}
    /\ nextTimerId = 0
    /\ requests = EmptyBag
    /\ responses = EmptyBag
    /\ store \in Contents
    /\ called = NoCall
    /\ failedSince = FALSE
    /\ apiCall = NoApi
    /\ apiResult = Return(FALSE)

\* outcomes of the GET issued on mount
LoadOutcomes ==
    {Resolved(200, JsonBody(Clipboard(store))),
     Resolved(204, EmptyBody), Resolved(200, HtmlBody),
     Resolved(200, BrokenBody), Rejected}
        \cup {Resolved(s, JsonBody(ApiError)) : s \in ServerStatuses}

\* useEffect / fetchClipboard, from the await on
fetchClipboard ==
    /\ isLoading
    /\ \E r \in LoadOutcomes :
         LET data == getClipboard(r) IN
         IF data.kind = "return"
         THEN /\ clipboard' = data.value
              /\ content' = data.value.content
              /\ lastSavedContent' = data.value.content
              /\ error' = ""
         ELSE /\ error' = data.message
              /\ UNCHANGED <<clipboard, content, lastSavedContent>>
    /\ isLoading' = FALSE
    /\ called' = NoCall
    /\ UNCHANGED <<isSaving, hasChanges, saveTimeoutRef, toasts, timers,
                   nextTimerId, requests, responses, store, failedSince>>
    /\ UNCHANGED apiVars

\* saveContent up to the await: the early return and the PUT
saveContent_NoGuard(newContent, by) ==
    /\ isSaving' = TRUE
    /\ requests' = requests (+) SetToBag({newContent})
    /\ called' = [by |-> by, arg |-> newContent, sent |-> TRUE]

saveContent(newContent, by) ==
    IF newContent = lastSavedContent
    THEN /\ called' = [by |-> by, arg |-> newContent, sent |-> FALSE]
         /\ UNCHANGED <<isSaving, requests>>
    ELSE /\ isSaving' = TRUE
         /\ requests' = requests (+) SetToBag({newContent})
         /\ called' = [by |-> by, arg |-> newContent, sent |-> TRUE]

\* clearTimeout(saveTimeoutRef.current)
ClearTimeout(ts) == {t \in ts : t.id # saveTimeoutRef}

handleContentChange_NoClear(newContent) ==
    /\ Rendered
    /\ nextTimerId < MaxEdits
    /\ newContent # content
    /\ content' = newContent
    /\ hasChanges' = (newContent # lastSavedContent)
    /\ nextTimerId' = nextTimerId + 1
    /\ saveTimeoutRef' = nextTimerId + 1
    /\ timers' = timers \cup {[id |-> nextTimerId + 1, content |-> newContent]}
    /\ called' = NoCall
    /\ failedSince' = FALSE
    /\ UNCHANGED <<clipboard, isLoading, isSaving, error, lastSavedContent,
                   toasts, requests, responses, store>>
    /\ UNCHANGED apiVars

\* onChange of the controlled textarea: React raises it only when the value
\* differs from the one rendered.  The 1.5 s delay is abstracted: the timer
\* may fire at any later step
handleContentChange(newContent) ==
    /\ Rendered
    /\ nextTimerId < MaxEdits
    /\ newContent # content
    /\ content' = newContent
    /\ hasChanges' = (newContent # lastSavedContent)
    /\ nextTimerId' = nextTimerId + 1
    /\ saveTimeoutRef' = nextTimerId + 1
    /\ timers' = ClearTimeout(timers)
                    \cup {[id |-> nextTimerId + 1, content |-> newContent]}
    /\ called' = NoCall
    /\ failedSince' = FALSE
    /\ UNCHANGED <<clipboard, isLoading, isSaving, error, lastSavedContent,
                   toasts, requests, responses, store>>
    /\ UNCHANGED apiVars

\* the setTimeout callback of handleContentChange runs
TimerFires(t) ==
    /\ t \in timers
    /\ timers' = timers \ {t}
    /\ saveContent(t.content, "timer")
    /\ UNCHANGED <<content, clipboard, isLoading, hasChanges, error,
                   saveTimeoutRef, lastSavedContent, toasts, nextTimerId,
                   responses, store, failedSince>>
    /\ UNCHANGED apiVars

handleManualSave_NoClear ==
    /\ Rendered
    /\ ~(isSaving \/ ~hasChanges)
    /\ saveContent(content, "manual")
    /\ failedSince' = FALSE
    /\ UNCHANGED <<content, clipboard, isLoading, hasChanges, error, timers,
                   saveTimeoutRef, lastSavedContent, toasts, nextTimerId,
                   responses, store>>
    /\ UNCHANGED apiVars

\* click on the Save button (disabled={isSaving || !hasChanges})
handleManualSave ==
    /\ Rendered
    /\ ~(isSaving \/ ~hasChanges)
    /\ timers' = ClearTimeout(timers)
    /\ saveContent(content, "manual")
    /\ failedSince' = FALSE
    /\ UNCHANGED <<content, clipboard, isLoading, hasChanges, error,
                   saveTimeoutRef, lastSavedContent, toasts, nextTimerId,
                   responses, store>>
    /\ UNCHANGED apiVars

\* failure responses produced so far (delivered or still in flight)
Failing == {r \in BagToSet(responses) : updateClipboard(r.fetch).kind = "throw"}
FailuresPending ==
    LET RECURSIVE Sum(_)
        Sum(S) == IF S = {} THEN 0
                  ELSE LET r == CHOOSE x \in S : TRUE
                       IN CopiesIn(r, responses) + Sum(S \ {r})
    IN Sum(Failing)

\* the remote store handles one PUT: it stores the content and answers 200
\* with the record (which may be lost on the way) or 204 with no body; or an
\* error is answered, an
\* intermediary answers 200 with a page, or the connection fails, and nothing
\* is stored
StoreHandlesPut(c, r) ==
    /\ BagIn(c, requests)
    /\ requests' = requests (-) SetToBag({c})
    /\ \/ /\ r = Resolved(200, JsonBody(Clipboard(c)))
          /\ store' = c
       \/ /\ r \in {Resolved(204, EmptyBody), Resolved(200, BrokenBody)}
          /\ toasts + FailuresPending < MaxToasts
          /\ store' = c
       \/ /\ r \in {Resolved(s, JsonBody(ApiError)) : s \in ServerStatuses}
                      \cup {Resolved(200, HtmlBody), Rejected}
          /\ toasts + FailuresPending < MaxToasts
          /\ store' = store
    /\ responses' = responses (+) SetToBag({[content |-> c, fetch |-> r]})
    /\ called' = NoCall
    /\ UNCHANGED <<content, clipboard, isLoading, isSaving, hasChanges, error,
                   saveTimeoutRef, lastSavedContent, toasts, timers, nextTimerId,
                   failedSince>>
    /\ UNCHANGED apiVars

\* saveContent from the await on, with a catch block that also drops the
\* unsaved-changes flag
saveContentDone_ClearsFlag(resp) ==
    /\ BagIn(resp, responses)
    /\ responses' = responses (-) SetToBag({resp})
    /\ LET data == updateClipboard(resp.fetch) IN
       IF data.kind = "return"
       THEN /\ clipboard' = data.value
            /\ lastSavedContent' = resp.content
            /\ hasChanges' = FALSE
            /\ toasts' = toasts
            /\ failedSince' = failedSince
       ELSE /\ toasts' = toasts + 1
            /\ failedSince' = TRUE
            /\ hasChanges' = FALSE
            /\ UNCHANGED <<clipboard, lastSavedContent>>
    /\ isSaving' = FALSE
    /\ called' = NoCall
    /\ UNCHANGED <<content, isLoading, error, saveTimeoutRef, timers,
                   nextTimerId, requests, store>>
    /\ UNCHANGED apiVars

\* saveContent from the await on: the PUT's outcome reaches the component
saveContentDone(resp) ==
    /\ BagIn(resp, responses)
    /\ responses' = responses (-) SetToBag({resp})
    /\ LET data == updateClipboard(resp.fetch) IN
       IF data.kind = "return"
       THEN /\ clipboard' = data.value
            /\ lastSavedContent' = resp.content
            /\ hasChanges' = FALSE
            /\ toasts' = toasts
            /\ failedSince' = failedSince
       ELSE /\ toasts' = toasts + 1
            /\ failedSince' = TRUE
            /\ UNCHANGED <<clipboard, lastSavedContent, hasChanges>>
    /\ isSaving' = FALSE
    /\ called' = NoCall
    /\ UNCHANGED <<content, isLoading, error, saveTimeoutRef, timers,
                   nextTimerId, requests, store>>
    /\ UNCHANGED apiVars

PutOutcomes(c) ==
    {Resolved(200, JsonBody(Clipboard(c))),
     Resolved(204, EmptyBody), Resolved(200, HtmlBody),
     Resolved(200, BrokenBody), Rejected}
        \cup {Resolved(s, JsonBody(ApiError)) : s \in ServerStatuses}

Change    == \E c \in Contents : handleContentChange(c)
Timer     == \E t \in timers : TimerFires(t)
StorePut  == \E c \in BagToSet(requests) : \E r \in PutOutcomes(c) :
                 StoreHandlesPut(c, r)
Delivered == \E resp \in BagToSet(responses) : saveContentDone(resp)

Next ==
    \/ fetchClipboard
    \/ Change
    \/ Timer
    \/ handleManualSave
    \/ StorePut
    \/ Delivered

Spec == Init /\ [][Next]_vars

(***************************************************************************)
(* The ApiClient methods applied to every fetch outcome                    *)
(***************************************************************************)
Bodies == {JsonBody(Clipboard(c)) : c \in Contents}
              \cup {JsonBody(ApiError), HtmlBody, EmptyBody, BrokenBody}
\* a response with a null body status carries no body
FetchOutcomes ==
    {r \in {Resolved(s, b) : s \in Statuses, b \in Bodies} :
        r.status \in NullBodyStatuses => r.body = EmptyBody}
        \cup {Rejected}

ApiCreateClipboard ==
    /\ \E r \in FetchOutcomes :
         /\ apiCall' = [method |-> "createClipboard", fetch |-> r]
         /\ apiResult' = createClipboard(r)
    /\ UNCHANGED editorVars

ApiGetClipboard ==
    /\ \E r \in FetchOutcomes :
         /\ apiCall' = [method |-> "getClipboard", fetch |-> r]
         /\ apiResult' = getClipboard(r)
    /\ UNCHANGED editorVars

ApiUpdateClipboard ==
    /\ \E r \in FetchOutcomes :
         /\ apiCall' = [method |-> "updateClipboard", fetch |-> r]
         /\ apiResult' = updateClipboard(r)
    /\ UNCHANGED editorVars

ApiCheckHealth ==
    /\ \E r \in FetchOutcomes :
         /\ apiCall' = [method |-> "checkHealth", fetch |-> r]
         /\ apiResult' = checkHealth(r)
    /\ UNCHANGED editorVars

ApiNext ==
    \/ ApiCreateClipboard
    \/ ApiGetClipboard
    \/ ApiUpdateClipboard
    \/ ApiCheckHealth

ApiSpec == Init /\ [][ApiNext]_vars

(***************************************************************************)
(* Properties                                                              *)
(***************************************************************************)
NetworkIdle == requests = EmptyBag /\ responses = EmptyBag
\* nothing is left to run without the user: no timer, no request, no response
Quiescent == Rendered /\ timers = {} /\ NetworkIdle
\* the step made a saveContent call that issued a PUT
Sends == BagCardinality(requests') > BagCardinality(requests)
\* the step handled the failure of an update request (the catch block ran)
FailureHandled == toasts' = toasts + 1

\* C1 (as stated): after a successful load, once the user has stopped editing
\* and every update succeeded, the run ends with the store holding the text
\* shown in the editor: whenever no timer, request or response is left and no
\* update has failed, store = content.
C1_SettledStoreEqualsEditor ==
    (Quiescent /\ toasts = 0) => store = content

\* C2 (as stated): whenever the status reads 'All changes saved' (editor
\* rendered, not saving, no changes flagged), the editor content equals
\* lastSavedContent.
C2_AllSavedMeansSaved ==
    (Rendered /\ ~isSaving /\ ~hasChanges) => content = lastSavedContent

\* the pending timer is the one saveTimeoutRef names and carries the content
\* of the latest change; a saveContent call made by a timer gets that content
C3_Pending ==
    /\ Cardinality(timers) <= 1
    /\ \A t \in timers : t.id = saveTimeoutRef /\ t.content = content
    /\ called.by = "timer" => called.arg = content

\* C3: debounce.  At most one auto-save timer is pending, it is the one
\* saveTimeoutRef names and it carries the latest content; a content change
\* leaves exactly the new timer pending; a timer that fires calls saveContent
\* with the content of the most recent change.
C3_Debounce ==
    /\ []C3_Pending
    /\ [][content' # content /\ ~isLoading =>
            timers' = {[id |-> saveTimeoutRef', content |-> content']}]_vars

\* second timer fired with the latest text after the first one was cancelled:
\* had timer 1 fired, its PUT would still be in flight or would have moved
\* lastSavedContent, and timer 2 would have sent a request
C3_Witness ==
    /\ called.by = "timer" /\ ~called.sent
    /\ nextTimerId = 2 /\ timers = {}
    /\ NetworkIdle /\ toasts = 0

\* C4 (as stated): handling a failed update only shows a toast and resets
\* isSaving, and no update request is sent afterwards until the next content
\* change or manual save.
C4_NoRequestAfterFailure ==
    [][/\ FailureHandled =>
            /\ isSaving' = FALSE
            /\ UNCHANGED <<lastSavedContent, clipboard, content, hasChanges,
                           timers, saveTimeoutRef, requests>>
       /\ (failedSince /\ Sends) => called'.by = "manual"]_vars

\* C4 (amended): handling a failed update only shows a toast and resets
\* isSaving; it starts no timer and sends no request.  Afterwards a request is
\* sent only by a manual save or by an auto-save timer, and such a timer was
\* started by a content change, possibly one made before the failure.
C4_FailureOnlyToasts ==
    [][/\ FailureHandled =>
            /\ isSaving' = FALSE
            /\ UNCHANGED <<lastSavedContent, clipboard, content, hasChanges,
                           timers, saveTimeoutRef, requests, nextTimerId,
                           error, isLoading, store>>
       /\ Sends => called'.by \in {"manual", "timer"}
       /\ (called'.by = "timer") => (timers # {} /\ timers' = {})
       /\ (timers' \ timers # {}) => content' # content]_vars

\* a failure was handled and nothing is scheduled: the unsaved text stays
\* unsaved with no timer and no request
C4_Witness ==
    /\ toasts = 1 /\ failedSince
    /\ hasChanges /\ ~isSaving
    /\ Quiescent /\ store # content

\* C6: a saveContent call with content equal to lastSavedContent sends no
\* request and changes no state; a request is sent only by a call whose
\* content differs from lastSavedContent, and carries that content.
C6_SaveOnlyWhenDifferent ==
    [][/\ (called'.by # "none" /\ called'.arg = lastSavedContent) =>
            UNCHANGED <<requests, responses, isSaving, hasChanges,
                        lastSavedContent, clipboard, content, store, toasts>>
       /\ Sends =>
            /\ called'.by # "none"
            /\ called'.arg # lastSavedContent
            /\ requests' = requests (+) SetToBag({called'.arg})]_vars

\* saveContent was called with the content already saved, while the editor
\* had gone back to it
C6_Witness ==
    /\ called.by # "none" /\ called.arg = lastSavedContent
    /\ ~called.sent /\ content = lastSavedContent

\* C7: the Save button is clicked only when isSaving is false and hasChanges
\* is true; the click cancels the pending timer and calls saveContent with
\* the current editor content; no timer is pending afterwards and only a
\* content change starts one.
C7_ManualSave ==
    [][/\ called'.by = "manual" =>
            /\ ~isSaving /\ hasChanges
            /\ called'.arg = content
            /\ timers' = {}
       /\ (timers' \ timers # {}) => content' # content]_vars

\* Save clicked while the timer of the only change was still pending: had it
\* fired, its request would have had to succeed and clear hasChanges
C7_Witness ==
    /\ called.by = "manual" /\ called.sent
    /\ nextTimerId = 1 /\ timers = {}
    /\ toasts = 0 /\ responses = EmptyBag

\* C8 (as stated): isSaving is true whenever an update request is in flight.
C8_SavingWhileInFlight ==
    ~NetworkIdle => isSaving

\* the generic message of getClipboard / updateClipboard
C5_Generic(m) == IF m = "getClipboard" THEN "Failed to fetch clipboard"
                 ELSE "Failed to update clipboard"

\* C5 (as stated): outcome mapping of the REST client for every response
\* status.  getClipboard and updateClipboard return the body iff the response
\* is ok, throw 'Clipboard not found' iff the status is 404 and their generic
\* error for every other non-ok status; createClipboard throws its error for
\* every non-ok status; checkHealth always returns: response.ok, or false
\* when the fetch rejects.
C5_OutcomeMapping ==
    LET m == apiCall.method
        r == apiCall.fetch
    IN  /\ (m \in {"getClipboard", "updateClipboard"} /\ r.kind = "resolved") =>
              /\ (apiResult.kind = "return") <=> Ok(r)
              /\ apiResult.kind = "return" => apiResult.value = r.body.value
              /\ (apiResult = Throw("Clipboard not found")) <=> (r.status = 404)
              /\ (apiResult = Throw(C5_Generic(m)))
                     <=> (~Ok(r) /\ r.status # 404)
        /\ (m = "createClipboard" /\ r.kind = "resolved" /\ ~Ok(r)) =>
              apiResult = Throw("Failed to create clipboard")
        /\ m = "checkHealth" =>
              /\ apiResult.kind = "return"
              /\ apiResult.value = (r.kind = "resolved" /\ Ok(r))

\* C5 (amended): as above, except that getClipboard and updateClipboard
\* return the parsed body iff the response is ok and its body is read and is
\* JSON; an ok response makes them throw the TypeError of response.json()
\* iff its body cannot be read, and its SyntaxError iff the body is read and
\* is empty or not JSON.
C5_OutcomeMappingParsed ==
    LET m == apiCall.method
        r == apiCall.fetch
    IN  /\ (m \in {"getClipboard", "updateClipboard"} /\ r.kind = "resolved") =>
              /\ (apiResult = Return(r.body.value))
                     <=> (Ok(r) /\ r.body.kind = "json")
              /\ (apiResult = Throw("SyntaxError"))
                     <=> (Ok(r) /\ r.body.kind \in {"text", "empty"})
              /\ (apiResult = ReadError)
                     <=> (Ok(r) /\ r.body.kind = "broken")
              /\ (apiResult = Throw("Clipboard not found")) <=> (r.status = 404)
              /\ (apiResult = Throw(C5_Generic(m)))
                     <=> (~Ok(r) /\ r.status # 404)
        /\ (m = "createClipboard" /\ r.kind = "resolved" /\ ~Ok(r)) =>
              apiResult = Throw("Failed to create clipboard")
        /\ m = "checkHealth" =>
              /\ apiResult.kind = "return"
              /\ apiResult.value = (r.kind = "resolved" /\ Ok(r))

\* updateClipboard got an ok response with no body and threw
C5_Witness ==
    /\ apiCall.method = "updateClipboard"
    /\ apiCall.fetch.kind = "resolved" /\ apiCall.fetch.status = 204
    /\ apiResult = Throw("SyntaxError")

====
